---- MODULE Spec2Model ----
(***************************************************************************)
(* Model of generate_dataset.py: the parallel sampling / deduplication     *)
(* loop (lines 38-69) and the shuffle / split / flatten / normalize        *)
(* pipeline (lines 71-94).                                                 *)
(*                                                                         *)
(* The geometry library (CYTools) and the task runtime (ray) are external. *)
(* A triangulation is an integer t in 1..NumTri; the library calls made on *)
(* it are small deterministic functions of t.  The sampler itself is       *)
(* nondeterministic: any batch of at most N triangulations, or a failure.  *)
(***************************************************************************)
EXTENDS Integers, Sequences, FiniteSets, TLC

(* ------------------------------ bounds --------------------------------- *)
NumTri == 3          \* triangulations the sampler can return
MaxU == 2            \* num_CYs ranges over 1..MaxU
MaxC == 3            \* max_dataset_size ranges over 1..MaxC
MaxW == 2            \* num_threads ranges over 1..MaxW
MaxB == 2            \* compute_chunk_size ranges over 1..MaxB
MaxRound == 2        \* num_threads * compute_chunk_size is at most MaxRound

Triangulations == 1 .. NumTri

VARIABLES
  num_CYs,            \* line 21
  max_dataset_size,   \* line 22
  train_test_split,   \* line 23, in percent
  num_threads,        \* line 24
  compute_chunk_size, \* line 25
  CY_dict,            \* line 60 / 72
  triangulation_ctr,  \* line 61
  pbar_n,             \* line 62: pbar.n
  tasks,              \* the ray tasks of the current round (line 64): position,
                      \* backend calls made so far (history), returned value
  pc,                 \* position of the script
  dataset,            \* line 71
  train_dataset_size, \* line 76
  train_dataset,      \* lines 77, 81
  test_dataset,       \* lines 78, 82
  train_features,     \* lines 85, 93
  test_features,      \* lines 86, 94
  train_labels,       \* line 87
  test_labels,        \* line 88
  features_mean,      \* line 91
  features_std,       \* line 92
  rounds,             \* history: completed iterations of the while loop
  emitted             \* history: triples returned by all tasks so far

config == <<num_CYs, max_dataset_size, train_test_split, num_threads,
            compute_chunk_size>>
loopVars == <<CY_dict, triangulation_ctr, pbar_n, tasks, rounds, emitted>>
splitVars == <<dataset, train_dataset_size, train_dataset, test_dataset>>
normVars == <<train_features, test_features, train_labels, test_labels,
              features_mean, features_std>>
vars == <<config, loopVars, pc, splitVars, normVars>>

(* ---------------------- the geometry library --------------------------- *)
\* t.get_cy(): two triangulations give the same manifold up to relabeling.
get_cy(t) == (t + 1) \div 2

\* t.gkz_phi(): the first coordinate is the GKZ value of the origin.
gkz_phi(t) == <<7, t, (t * t) % 3>>

\* cy.intersection_numbers(format='coo'): rows <<index, value>>; the order of
\* the rows depends on the triangulation that produced the manifold.
intersection_numbers(t) ==
  LET m == get_cy(t)
  IN  IF t % 2 = 1 THEN << <<0, 0>>, <<1, m>> >> ELSE << <<1, m>>, <<0, 0>> >>

RECURSIVE pow10(_)
pow10(m) == IF m = 0 THEN 1 ELSE 10 * pow10(m - 1)

\* cy.compute_cy_volume(tip): a function of the manifold.
compute_cy_volume(t) == pow10(get_cy(t))

RECURSIVE log10(_)
log10(v) == IF v < 10 THEN 0 ELSE 1 + log10(v \div 10)

(* ------------------------- generate_CYs -------------------------------- *)
RECURSIVE Insert(_, _)
Insert(x, s) ==
  IF s = <<>> THEN <<x>>
  ELSE IF x <= Head(s) THEN <<x>> \o s
  ELSE <<Head(s)>> \o Insert(x, Tail(s))

RECURSIVE SortCol(_)
SortCol(s) == IF s = <<>> THEN <<>> ELSE Insert(Head(s), SortCol(Tail(s)))

\* np.sort(a, axis=0): every column sorted on its own.
np_sort_axis0(a) ==
  LET col(j) == SortCol([i \in 1 .. Len(a) |-> a[i][j]])
  IN  [i \in 1 .. Len(a) |-> <<col(1)[i], col(2)[i]>>]

\* lines 50-57: the triple computed for one triangulation.
Triple(t) ==
  <<np_sort_axis0(intersection_numbers(t)), Tail(gkz_phi(t)),
    log10(compute_cy_volume(t))>>

\* lines 48-58: cy_data for a list of triangulations.
cy_data_of(triangulations_list) ==
  [i \in 1 .. Len(triangulations_list) |-> Triple(triangulations_list[i])]

\* POLY.random_triangulations_fast(N, ...): what a successful call may return.
random_triangulations_fast(N) ==
  UNION {[1 .. n -> Triangulations] : n \in 0 .. N}


(* --------------------------- the dict ---------------------------------- *)
\* A Python dict: <<key, value>> items in insertion order.
None == [none |-> TRUE]
EmptyDict == [items |-> <<>>]
len(d) == Len(d.items)
keys(d) == {d.items[i][1] : i \in 1 .. Len(d.items)}

\* [d for c in x for d in c]
RECURSIVE Flat(_)
Flat(x) == IF x = <<>> THEN <<>> ELSE Head(x) \o Flat(Tail(x))

\* Mutant of values: one group per entry instead of one per manifold.
values_per_entry(d) ==
  LET all == Flat([i \in 1 .. Len(d.items) |-> d.items[i][2]])
  IN  [i \in 1 .. Len(all) |-> <<all[i]>>]

values(d) == [i \in 1 .. Len(d.items) |-> d.items[i][2]]

\* Mutant of DictAppend: an existing key's list is replaced, not extended.
DictAppend_Overwrites(d, t) ==
  IF t[1] \in keys(d)
  THEN [items |-> [i \in 1 .. Len(d.items) |->
                     IF d.items[i][1] = t[1]
                     THEN <<t[1], << <<t[2], t[3]>> >> >>
                     ELSE d.items[i]]]
  ELSE [items |-> Append(d.items, <<t[1], << <<t[2], t[3]>> >> >>)]

\* line 67: CY_dict[d[0]] += [[d[1], d[2]]] on a defaultdict(lambda: []).
DictAppend(d, t) ==
  IF t[1] \in keys(d)
  THEN [items |-> [i \in 1 .. Len(d.items) |->
                     IF d.items[i][1] = t[1]
                     THEN <<t[1], Append(d.items[i][2], <<t[2], t[3]>>)>>
                     ELSE d.items[i]]]
  ELSE [items |-> Append(d.items, <<t[1], << <<t[2], t[3]>> >> >>)]

\* lines 66-67: for d in cy_data.  after[i] is the dict once the first i
\* triples are merged; the binder evaluates each intermediate dict once.
MergeData(d, cy_data) ==
  LET after[i \in 0 .. Len(cy_data)] ==
        IF i = 0 THEN d
        ELSE CHOOSE r \in {DictAppend(x, cy_data[i]) : x \in {after[i - 1]}} : TRUE
  IN  after[Len(cy_data)]

\* lines 65-67: for cy_data in cy_data_ray
MergeAll(d, cy_data_ray) ==
  LET after[i \in 0 .. Len(cy_data_ray)] ==
        IF i = 0 THEN d
        ELSE CHOOSE r \in {MergeData(x, cy_data_ray[i]) : x \in {after[i - 1]}} : TRUE
  IN  after[Len(cy_data_ray)]

(* ----------------------------- Init ------------------------------------ *)
\* line 23: train_test_split = 0.8, in percent.
DefaultSplit == 80
Unassigned == [unassigned |-> TRUE]
Idle == [pc |-> "idle", calls |-> <<>>, ret |-> <<>>]

Init ==
  /\ num_CYs \in 1 .. MaxU
  /\ max_dataset_size \in 1 .. MaxC
  /\ train_test_split = DefaultSplit
  /\ num_threads \in 1 .. MaxW
  /\ compute_chunk_size \in 1 .. MaxB
  /\ num_threads * compute_chunk_size <= MaxRound
  /\ CY_dict = EmptyDict
  /\ triangulation_ctr = 0
  /\ pbar_n = 0
  /\ tasks = [i \in 1 .. num_threads |-> Idle]
  /\ pc = "while"
  /\ dataset = <<>>
  /\ train_dataset_size = 0
  /\ train_dataset = <<>>
  /\ test_dataset = <<>>
  /\ train_features = <<>>
  /\ test_features = <<>>
  /\ train_labels = <<>>
  /\ test_labels = <<>>
  /\ features_mean = Unassigned
  /\ features_std = Unassigned
  /\ rounds = 0
  /\ emitted = 0

(* ------------------------ the sampling loop ---------------------------- *)
\* Mutant of LoopCondition: a round is started only if it fits under the cap.
LoopCondition_RoundMustFit ==
  /\ len(CY_dict) < num_CYs
  /\ triangulation_ctr + num_threads * compute_chunk_size <= max_dataset_size

\* Mutant of LoopCondition: the cap compared with <= instead of <.
LoopCondition_CapInclusive ==
  len(CY_dict) < num_CYs /\ triangulation_ctr <= max_dataset_size

\* line 63: the while condition
LoopCondition ==
  len(CY_dict) < num_CYs /\ triangulation_ctr < max_dataset_size

\* line 64: [generate_CYs.remote(compute_chunk_size) for _ in range(num_threads)]
Dispatch ==
  /\ pc = "while"
  /\ LoopCondition
  /\ pc' = "ray.get"
  /\ tasks' = [i \in 1 .. num_threads |-> [pc |-> "cgal", calls |-> <<>>, ret |-> <<>>]]
  /\ UNCHANGED <<config, CY_dict, triangulation_ctr, pbar_n, rounds, emitted,
                 splitVars, normVars>>

\* lines 42, 48-58: the cgal backend answers with one of `outputs`; the task
\* returns cy_data.
PrimaryReturns(i, outputs) ==
  /\ tasks[i].pc = "cgal"
  /\ \E tl \in outputs :
       /\ tasks' = [tasks EXCEPT ![i] = [pc |-> "done", calls |-> <<"cgal">>,
                                         ret |-> cy_data_of(tl)]]
       /\ emitted' = emitted + Len(cy_data_of(tl))
  /\ UNCHANGED <<config, CY_dict, triangulation_ctr, pbar_n, rounds, pc,
                 splitVars, normVars>>

PrimaryOk(i) == PrimaryReturns(i, random_triangulations_fast(compute_chunk_size))

\* lines 42-44: the cgal backend raises; the task goes on to qhull.
PrimaryFail(i) ==
  /\ tasks[i].pc = "cgal"
  /\ tasks' = [tasks EXCEPT ![i] = [pc |-> "qhull", calls |-> <<"cgal raised">>, ret |-> <<>>]]
  /\ UNCHANGED <<config, CY_dict, triangulation_ctr, pbar_n, rounds, emitted,
                 pc, splitVars, normVars>>

\* lines 45, 48-58: the qhull backend answers.
FallbackOk(i) ==
  /\ tasks[i].pc = "qhull"
  /\ \E tl \in random_triangulations_fast(compute_chunk_size) :
       /\ tasks' = [tasks EXCEPT ![i] = [pc |-> "done",
                                         calls |-> <<"cgal raised", "qhull">>,
                                         ret |-> cy_data_of(tl)]]
       /\ emitted' = emitted + Len(cy_data_of(tl))
  /\ UNCHANGED <<config, CY_dict, triangulation_ctr, pbar_n, rounds, pc,
                 splitVars, normVars>>

\* Mutant of FallbackFail: the second exception is not caught; ray.get
\* re-raises it in the script.
FallbackFail_Raises(i) ==
  /\ tasks[i].pc = "qhull"
  /\ tasks' = [tasks EXCEPT ![i] = [pc |-> "raised",
                                    calls |-> <<"cgal raised", "qhull raised">>,
                                    ret |-> <<>>]]
  /\ pc' = "RayTaskError"
  /\ UNCHANGED <<config, CY_dict, triangulation_ctr, pbar_n, rounds, emitted,
                 splitVars, normVars>>

\* lines 46-47: the qhull backend raises too; return [].
FallbackFail(i) ==
  /\ tasks[i].pc = "qhull"
  /\ tasks' = [tasks EXCEPT ![i] = [pc |-> "done",
                                    calls |-> <<"cgal raised", "qhull raised">>,
                                    ret |-> <<>>]]
  /\ UNCHANGED <<config, CY_dict, triangulation_ctr, pbar_n, rounds, emitted,
                 pc, splitVars, normVars>>

\* Mutant of AllReturned: the merge starts once any task has returned.
SomeReturned == \E i \in DOMAIN tasks : tasks[i].pc = "done"

\* ray.get(list) blocks until every task of the list has returned.
AllReturned == \A i \in DOMAIN tasks : tasks[i].pc = "done"
cy_data_ray == [i \in DOMAIN tasks |-> tasks[i].ret]

\* lines 64-69: ray.get returns once every task has; merge, progress, counter.
\* The results are consumed; each task's record of backend calls is kept.
Merge ==
  /\ pc = "ray.get"
  /\ AllReturned
  /\ CY_dict' = MergeAll(CY_dict, cy_data_ray)
  /\ pbar_n' = pbar_n + (len(CY_dict') - pbar_n)
  /\ triangulation_ctr' = triangulation_ctr + num_threads * compute_chunk_size
  /\ tasks' = [i \in DOMAIN tasks |->
                [pc |-> "idle", calls |-> tasks[i].calls, ret |-> <<>>]]
  /\ rounds' = rounds + 1
  /\ pc' = "while"
  /\ UNCHANGED <<config, emitted, splitVars, normVars>>

\* line 63: the while condition is false.
ExitLoop ==
  /\ pc = "while"
  /\ ~LoopCondition
  /\ pc' = "values"
  /\ UNCHANGED <<config, loopVars, splitVars, normVars>>

(* ------------------- shuffle, split, flatten --------------------------- *)
\* lines 71-72: dataset = list(CY_dict.values()); CY_dict = None
Values ==
  /\ pc = "values"
  /\ dataset' = values(CY_dict)
  /\ CY_dict' = None
  /\ pc' = "shuffle"
  /\ UNCHANGED <<config, triangulation_ctr, pbar_n, tasks, rounds, emitted,
                 train_dataset_size, train_dataset, test_dataset, normVars>>

\* line 73: random.shuffle(dataset): any permutation of the list.
Shuffle ==
  /\ pc = "shuffle"
  /\ \E p \in Permutations(1 .. Len(dataset)) :
       dataset' = [i \in 1 .. Len(dataset) |-> dataset[p[i]]]
  /\ pc' = "split"
  /\ UNCHANGED <<config, loopVars, train_dataset_size, train_dataset,
                 test_dataset, normVars>>

\* Mutant of SplitIndex: round() instead of int().
SplitIndex_Rounds(n, percent) == (n * percent + 50) \div 100

\* line 76: int(len(dataset) * train_test_split), the ratio held in percent.
SplitIndex(n, percent) == (n * percent) \div 100

\* Mutant of Split: the test slice starts one element late.
Split_SkipsOne ==
  /\ pc = "split"
  /\ train_dataset_size' = SplitIndex(Len(dataset), train_test_split)
  /\ train_dataset' = SubSeq(dataset, 1, train_dataset_size')
  /\ test_dataset' = SubSeq(dataset, train_dataset_size' + 2, Len(dataset))
  /\ pc' = "flatten"
  /\ UNCHANGED <<config, loopVars, dataset, normVars>>

\* lines 76-78
Split ==
  /\ pc = "split"
  /\ train_dataset_size' = SplitIndex(Len(dataset), train_test_split)
  /\ train_dataset' = SubSeq(dataset, 1, train_dataset_size')
  /\ test_dataset' = SubSeq(dataset, train_dataset_size' + 1, Len(dataset))
  /\ pc' = "flatten"
  /\ UNCHANGED <<config, loopVars, dataset, normVars>>

\* lines 81-82
Flatten ==
  /\ pc = "flatten"
  /\ train_dataset' = Flat(train_dataset)
  /\ test_dataset' = Flat(test_dataset)
  /\ pc' = "features"
  /\ UNCHANGED <<config, loopVars, dataset, train_dataset_size, normVars>>

(* --------------------------- normalize --------------------------------- *)
\* np.array([d[k] for d in x])
Column(x, k) == [i \in 1 .. Len(x) |-> x[i][k]]

\* lines 85-88
Features ==
  /\ pc = "features"
  /\ train_features' = Column(train_dataset, 1)
  /\ test_features' = Column(test_dataset, 1)
  /\ train_labels' = Column(train_dataset, 2)
  /\ test_labels' = Column(test_dataset, 2)
  /\ pc' = "normalize"
  /\ UNCHANGED <<config, loopVars, splitVars, features_mean, features_std>>

\* The width of a feature row: len(gkz_phi) - 1.
Dim == Len(gkz_phi(1)) - 1

RECURSIVE SumSeq(_)
SumSeq(s) == IF s = <<>> THEN 0 ELSE Head(s) + SumSeq(Tail(s))

\* a.mean(axis=0) as the exact fraction sum / n per column; n = 0 is nan
\* (the array built from an empty list has shape (0,), its mean is one nan).
mean_axis0(a) ==
  [n |-> Len(a),
   sum |-> IF a = <<>> THEN <<>>
           ELSE [j \in 1 .. Dim |-> SumSeq([i \in 1 .. Len(a) |-> a[i][j]])]]

\* a.std(axis=0) as its square, the exact fraction (n*sumsq - sum^2) / n^2.
std_axis0(a) ==
  [n |-> Len(a),
   var |-> IF a = <<>> THEN <<>>
           ELSE [j \in 1 .. Dim |->
                   Len(a) * SumSeq([i \in 1 .. Len(a) |-> a[i][j] * a[i][j]])
                   - SumSeq([i \in 1 .. Len(a) |-> a[i][j]])
                     * SumSeq([i \in 1 .. Len(a) |-> a[i][j]])]]

\* (a - mean) / (std + tol), kept exact: for each cell the numerator
\* (x*n - sum) / n and the variance whose root, plus tol, divides it.
Normalized(a, mean, std) ==
  [i \in 1 .. Len(a) |->
     IF mean.n = 0 THEN [j \in 1 .. Dim |-> [nan |-> TRUE]]
     ELSE [j \in 1 .. Dim |->
             [num |-> a[i][j] * mean.n - mean.sum[j], n |-> mean.n,
              var |-> std.var[j]]]]

\* Mutant of StatsInput: the statistics are taken over train and test.
StatsInput_All == train_features \o test_features

\* lines 91-92: the array the statistics are taken over.
StatsInput == train_features

\* line 94 subtracts a mean of shape (Dim,) from test_features; an array
\* built from an empty list has shape (0,), which does not broadcast.
BroadcastFails == test_features = <<>> /\ train_features # <<>> /\ Dim # 1

\* lines 90-94
Normalize ==
  /\ pc = "normalize"
  /\ features_mean' = mean_axis0(StatsInput)
  /\ features_std' = std_axis0(StatsInput)
  /\ train_features' = Normalized(train_features, features_mean', features_std')
  /\ IF BroadcastFails
     THEN test_features' = test_features /\ pc' = "ValueError"
     ELSE /\ test_features' = Normalized(test_features, features_mean', features_std')
          /\ pc' = "done"
  /\ UNCHANGED <<config, loopVars, splitVars, train_labels, test_labels>>

(* ------------------------------ Spec ----------------------------------- *)
Next ==
  \/ Dispatch
  \/ \E i \in DOMAIN tasks : PrimaryOk(i)
  \/ \E i \in DOMAIN tasks : PrimaryFail(i)
  \/ \E i \in DOMAIN tasks : FallbackOk(i)
  \/ \E i \in DOMAIN tasks : FallbackFail(i)
  \/ Merge
  \/ ExitLoop
  \/ Values
  \/ Shuffle
  \/ Split
  \/ Flatten
  \/ Features
  \/ Normalize

Spec == Init /\ [][Next]_vars

(* ---------------- the split pipeline on drawn tables -------------------- *)
\* The pipeline of lines 71-94 started from every table one round of a single
\* task can leave: the task returned tl (at most MaxDraw triangulations out of
\* 1..SplitNumTri), the cap was reached and the loop was left.
MaxDraw == 4
SplitNumTri == 5
SplitRatios == {10 * k : k \in 0 .. 10}

InitSplit ==
  /\ \E n \in 0 .. MaxDraw :
       \E tl \in [1 .. n -> 1 .. SplitNumTri] :
          /\ CY_dict = MergeAll(EmptyDict, <<cy_data_of(tl)>>)
          /\ compute_chunk_size = IF n = 0 THEN 1 ELSE n
          /\ emitted = n
  /\ num_threads = 1
  /\ triangulation_ctr = num_threads * compute_chunk_size
  /\ max_dataset_size = triangulation_ctr
  /\ num_CYs = SplitNumTri
  /\ train_test_split \in SplitRatios
  /\ pbar_n = len(CY_dict)
  /\ tasks = [i \in 1 .. num_threads |->
                [pc |-> "idle", calls |-> <<"cgal">>, ret |-> <<>>]]
  /\ rounds = 1
  /\ pc = "values"
  /\ dataset = <<>>
  /\ train_dataset_size = 0
  /\ train_dataset = <<>>
  /\ test_dataset = <<>>
  /\ train_features = <<>>
  /\ test_features = <<>>
  /\ train_labels = <<>>
  /\ test_labels = <<>>
  /\ features_mean = Unassigned
  /\ features_std = Unassigned

NextSplit ==
  \/ Values
  \/ Shuffle
  \/ Split
  \/ Flatten
  \/ Features
  \/ Normalize

SpecSplit == InitSplit /\ [][NextSplit]_vars

(* ------------------- the three-fingerprint scenario -------------------- *)
\* The mock sampler: every call returns exactly N triangulations that cycle
\* through three triangulations of three different manifolds, in ascending or
\* in descending order.
MockSampler(N) ==
  {[k \in 1 .. N |-> 2 * (k % 3) + 1], [k \in 1 .. N |-> 2 * ((N + 1 - k) % 3) + 1]}

MockTask(i) == PrimaryReturns(i, MockSampler(compute_chunk_size))

InitScenario ==
  /\ num_CYs = 5
  /\ max_dataset_size = 1000
  /\ num_threads = 2
  /\ compute_chunk_size = 10
  /\ train_test_split = DefaultSplit
  /\ CY_dict = EmptyDict
  /\ triangulation_ctr = 0
  /\ pbar_n = 0
  /\ tasks = [i \in 1 .. num_threads |-> Idle]
  /\ pc = "while"
  /\ dataset = <<>>
  /\ train_dataset_size = 0
  /\ train_dataset = <<>>
  /\ test_dataset = <<>>
  /\ train_features = <<>>
  /\ test_features = <<>>
  /\ train_labels = <<>>
  /\ test_labels = <<>>
  /\ features_mean = Unassigned
  /\ features_std = Unassigned
  /\ rounds = 0
  /\ emitted = 0

NextScenario ==
  \/ Dispatch
  \/ \E i \in DOMAIN tasks : MockTask(i)
  \/ Merge
  \/ ExitLoop

\* The script's thread and the ray workers keep running: a step that can be
\* taken is taken.
SpecScenario == InitScenario /\ [][NextScenario]_vars /\ WF_vars(NextScenario)

(* ============================ the claims =============================== *)
Flattened == pc \in {"features", "normalize", "done", "ValueError"}

\* The fingerprint of the manifold an entry <<gkz, label>> came from: the GKZ
\* vector identifies the triangulation (its first kept coordinate is t).
EntryFingerprint(e) == np_sort_axis0(intersection_numbers(e[1][1]))
Fingerprints(entries) ==
  {EntryFingerprint(entries[i]) : i \in 1 .. Len(entries)}

\* The fingerprints the sampler can produce for the base polytope.
Reachable ==
  Cardinality({np_sort_axis0(intersection_numbers(t)) : t \in Triangulations})

Min(a, b) == IF a <= b THEN a ELSE b

\* The number of entries stored in a dict, over all keys.
TotalEntries(d) == Len(Flat(values(d)))

(* C1: total_sampled (triangulation_ctr) never exceeds the hard cap C      *)
(* (max_dataset_size) in any reachable state, whatever W, B and the        *)
(* sampler do.                                                             *)
C1_CapRespected == triangulation_ctr <= max_dataset_size

(* C2: after shuffle, split and flatten, the fingerprints of the entries   *)
(* of the train set and those of the test set are disjoint: the entries    *)
(* merged under one fingerprint are all on the same side.                  *)
C2_NoLeak ==
  Flattened =>
    Fingerprints(train_dataset) \cap Fingerprints(test_dataset) = {}

\* A run whose train side holds two triangulations of one manifold and whose
\* test side holds another manifold.
C2_Witness ==
  /\ pc = "done"
  /\ Len(train_dataset) >= 2
  /\ Cardinality(Fingerprints(train_dataset)) = 1
  /\ train_dataset[1] # train_dataset[2]
  /\ test_dataset # <<>>

(* C4 as stated: when the loop has terminated the table holds at least     *)
(* min(U, reachable) keys.                                                 *)
C4_MinKeys ==
  pc = "values" => len(CY_dict) >= Min(num_CYs, Reachable)

(* C4 as amended: when the loop has terminated, either the table holds at  *)
(* least U keys or the counter has reached the cap C; the table never      *)
(* holds more keys than there are reachable fingerprints.                  *)
C4_TargetOrCap ==
  pc = "values" =>
    /\ len(CY_dict) >= num_CYs \/ triangulation_ctr >= max_dataset_size
    /\ len(CY_dict) <= Reachable

\* The loop left at the cap with fewer keys than min(U, reachable).
C4_Witness ==
  /\ pc = "values"
  /\ triangulation_ctr >= max_dataset_size
  /\ len(CY_dict) < Min(num_CYs, Reachable)
  /\ len(CY_dict) >= 1

(* C10: between rounds total_sampled = rounds * W * B, whatever the tasks   *)
(* returned; every task returns at most B triples; the entries stored over *)
(* all keys are the triples emitted so far, at most total_sampled; after   *)
(* split and flatten the train and test entries add up to that total.      *)
C10_Accounting ==
  /\ \A i \in DOMAIN tasks : Len(tasks[i].ret) <= compute_chunk_size
  /\ pc \in {"while", "values"} =>
       /\ triangulation_ctr = rounds * num_threads * compute_chunk_size
       /\ TotalEntries(CY_dict) = emitted
       /\ emitted <= triangulation_ctr
  /\ pc \in {"shuffle", "split"} => Len(Flat(dataset)) = emitted
  /\ pc = "flatten" =>
       Len(Flat(train_dataset)) + Len(Flat(test_dataset)) = emitted
  /\ Flattened => Len(train_dataset) + Len(test_dataset) = emitted

\* Two rounds, one task failed or came back short, a duplicate was merged,
\* and both sides of the split hold entries.
C10_Witness ==
  /\ pc = "done"
  /\ rounds >= 2
  /\ emitted < triangulation_ctr
  /\ emitted > Len(dataset)
  /\ train_dataset # <<>>
  /\ test_dataset # <<>>

(* C3: in the scenario U=5, C=1000, W=2, B=10 with a sampler that always    *)
(* returns B triangulations of only 3 fingerprints, the loop eventually    *)
(* terminates, and when it has, total_sampled = C = 1000 and the table     *)
(* holds at most 3 keys.                                                   *)
C3_Terminates ==
  /\ <>(pc = "values")
  /\ [](pc = "values" =>
          /\ triangulation_ctr = max_dataset_size
          /\ triangulation_ctr = 1000
          /\ len(CY_dict) <= 3)

\* The scenario's loop has terminated at the cap with all three fingerprints.
C3_Witness ==
  /\ pc = "values"
  /\ triangulation_ctr = 1000
  /\ rounds = 50
  /\ len(CY_dict) = 3

(* C5: with K keys and split ratio r in [0,1] the split puts exactly       *)
(* floor(K*r) manifolds, with all their entries, in train and the other    *)
(* K - floor(K*r) in test, every manifold in exactly one group; K=10,      *)
(* r=0.8 gives 8 and 2.                                                    *)
FloorOfShare(K, percent) ==
  CHOOSE n \in 0 .. K : n * 100 <= K * percent /\ K * percent < (n + 1) * 100

TrainSum(j) ==
  SumSeq([i \in 1 .. Len(train_dataset) |-> train_dataset[i][1][j]])
TrainSumSq(j) ==
  SumSeq([i \in 1 .. Len(train_dataset) |->
            train_dataset[i][1][j] * train_dataset[i][1][j]])

C7_TrainOnlyConstants ==
  pc = "done" =>
    LET n == Len(train_dataset)
    IN  /\ features_mean.n = n
        /\ features_std.n = n
        /\ n > 0 =>
             /\ \A j \in 1 .. Dim :
                  /\ features_mean.sum[j] = TrainSum(j)
                  /\ features_std.var[j] = n * TrainSumSq(j) - TrainSum(j) * TrainSum(j)
             /\ \A i \in 1 .. Len(train_dataset) : \A j \in 1 .. Dim :
                  train_features[i][j] =
                    [num |-> train_dataset[i][1][j] * n - features_mean.sum[j],
                     n |-> n, var |-> features_std.var[j]]
             /\ \A i \in 1 .. Len(test_dataset) : \A j \in 1 .. Dim :
                  test_features[i][j] =
                    [num |-> test_dataset[i][1][j] * n - features_mean.sum[j],
                     n |-> n, var |-> features_std.var[j]]

\* A finished run whose test features differ from every train feature.
C7_Witness ==
  /\ pc = "done"
  /\ Len(train_dataset) >= 2
  /\ test_dataset # <<>>
  /\ \A i \in 1 .. Len(test_dataset) : \A k \in 1 .. Len(train_dataset) :
       test_dataset[i][1] # train_dataset[k][1]
  /\ \E j \in 1 .. Dim : features_std.var[j] > 0

(* C6: a task calls the primary backend, calls the fallback once if and    *)
(* only if the primary raised, and returns an empty result if the fallback *)
(* raised too, so no error reaches the orchestrator; a round in which some *)
(* tasks failed this way still completes, its merge adds exactly the       *)
(* triples of the tasks that succeeded, and the loop goes on.              *)
Failed(i) == tasks[i].calls = <<"cgal raised", "qhull raised">>
Succeeded == {i \in DOMAIN tasks : ~Failed(i)}

\* The triples of the tasks that succeeded, by task, in task order.
SucceededResults ==
  LET idx == [k \in 1 .. Cardinality(Succeeded) |->
                CHOOSE i \in Succeeded :
                  Cardinality({j \in Succeeded : j < i}) = k - 1]
  IN  [k \in 1 .. Cardinality(Succeeded) |-> tasks[idx[k]].ret]

C6_TaskOutcome ==
  \A i \in DOMAIN tasks :
    /\ tasks[i].calls \in {<<>>, <<"cgal">>, <<"cgal raised">>,
                           <<"cgal raised", "qhull">>,
                           <<"cgal raised", "qhull raised">>}
    /\ tasks[i].pc \in {"idle", "cgal", "qhull", "done"}
    /\ tasks[i].pc = "qhull" <=> tasks[i].calls = <<"cgal raised">>
    /\ Failed(i) => tasks[i].pc \in {"done", "idle"} /\ tasks[i].ret = <<>>

C6_RoundStep ==
  (pc = "ray.get" /\ \A i \in DOMAIN tasks : tasks[i].pc = "done") =>
    /\ pc' = "while"
    /\ CY_dict' = MergeAll(CY_dict, SucceededResults)
    /\ (Succeeded = {} => CY_dict' = CY_dict)
    /\ rounds' = rounds + 1

C6_FailureIsNotFatal ==
  /\ []C6_TaskOutcome
  /\ [][C6_RoundStep]_vars
  /\ [](pc \in {"while", "ray.get", "values", "shuffle", "split", "flatten",
                "features", "normalize", "done", "ValueError"})

\* A round was merged in which task 1 failed on both backends and task 2
\* succeeded on the fallback; its triple is in the table and the loop goes on.
C6_Witness ==
  /\ pc = "while"
  /\ rounds = 1
  /\ num_threads = 2
  /\ Failed(1)
  /\ tasks[2].calls = <<"cgal raised", "qhull">>
  /\ TotalEntries(CY_dict) = 1
  /\ emitted = 1
  /\ LoopCondition

(* C8: the table is changed only by the orchestrator's merge, which runs   *)
(* only when all W tasks of the round have returned; the loop is left only *)
(* between rounds; the merge of a dispatched round takes in the results of *)
(* all W tasks even when the first of them already reaches the target U,   *)
(* so the final key count may exceed U.                                    *)
TriplesOf(i) == {tasks[i].ret[k] : k \in 1 .. Len(tasks[i].ret)}

C8_BarrierStep ==
  /\ (CY_dict' # CY_dict /\ CY_dict' # None) =>
       /\ pc = "ray.get" /\ pc' = "while"
       /\ \A i \in DOMAIN tasks : tasks[i].pc = "done"
  /\ (pc = "ray.get" /\ pc' # "ray.get") =>
       /\ \A i \in DOMAIN tasks : tasks[i].pc = "done"
       /\ \A i \in DOMAIN tasks : \A t \in TriplesOf(i) :
            \E k \in 1 .. len(CY_dict') :
              /\ CY_dict'.items[k][1] = t[1]
              /\ \E m \in 1 .. Len(CY_dict'.items[k][2]) :
                   CY_dict'.items[k][2][m] = <<t[2], t[3]>>
       /\ TotalEntries(CY_dict') =
            TotalEntries(CY_dict) + SumSeq([i \in DOMAIN tasks |-> Len(tasks[i].ret)])
  /\ (pc \in {"while", "ray.get"} /\ pc' \notin {"while", "ray.get"}) =>
       pc = "while" /\ pc' = "values" /\ UNCHANGED CY_dict
  /\ (\E i \in DOMAIN tasks : tasks'[i] # tasks[i] /\ tasks'[i].pc \in {"qhull", "done"})
       => UNCHANGED CY_dict

C8_Barrier == [][C8_BarrierStep]_vars

\* One round of two tasks of one triangulation each, target U = 1: the first
\* task's manifold reached the target, the round still merged the second
\* task's different manifold, and the table holds more keys than U.
C8_Witness ==
  /\ pc = "while"
  /\ rounds = 1
  /\ num_threads = 2
  /\ compute_chunk_size = 1
  /\ num_CYs = 1
  /\ len(CY_dict) = 2

(* C9: the table starts empty and only grows during sampling: no key is    *)
(* removed, a key's entries are only extended at the end, the progress     *)
(* counter never decreases and equals the number of keys after each round; *)
(* once the loop is left no step changes the table (line 72 then drops the *)
(* script's reference to it).                                              *)
IsPrefix(a, b) == Len(a) <= Len(b) /\ SubSeq(b, 1, Len(a)) = a

C9_GrowStep ==
  /\ (CY_dict # None /\ CY_dict' # None) =>
       /\ len(CY_dict) <= len(CY_dict')
       /\ \A k \in 1 .. len(CY_dict) :
            /\ CY_dict'.items[k][1] = CY_dict.items[k][1]
            /\ IsPrefix(CY_dict.items[k][2], CY_dict'.items[k][2])
  /\ pbar_n' >= pbar_n
  /\ pc \notin {"while", "ray.get"} => CY_dict' \in {CY_dict, None}
  /\ CY_dict = None => CY_dict' = None

C9_GrowsThenFrozen ==
  /\ CY_dict = EmptyDict /\ pbar_n = 0
  /\ [][C9_GrowStep]_vars
  /\ [](pc = "while" => pbar_n = len(CY_dict))
  /\ [](pc = "values" => pbar_n = len(CY_dict))

\* After two rounds a key holds two entries, the older one first.
C9_Witness ==
  /\ pc = "values"
  /\ rounds = 2
  /\ len(CY_dict) = 2
  /\ pbar_n = 2
  /\ \E k \in 1 .. 2 : Len(CY_dict.items[k][2]) >= 2
                       /\ CY_dict.items[k][2][1] # CY_dict.items[k][2][2]

====
